---- MODULE Spec2Model ----
(***************************************************************************)
(* Model of main.py (add, multiply, greet and the entry point under the    *)
(* `if __name__ == "__main__"` guard) and of its caller test_main.py.      *)
(*                                                                         *)
(* Python values are tagged records: an int carries an integer, a str a    *)
(* sequence of one-character strings, a float an exact signed dyadic       *)
(* rational (sign, numerator, denominator), which is what IEEE arithmetic  *)
(* yields on the small values used here, signed zeros included.            *)
(***************************************************************************)
EXTENDS Integers, Sequences, FiniteSets, TLC

\* ---------------------------------------------------------------- bounds
\* Integer operands of a client are drawn from -MaxInt..MaxInt.
MaxInt == 2
\* String operands of a client have at most MaxLen characters.
MaxLen == 1
\* Float operands of a client are k/2 for k in 0..MaxHalves, of either sign.
MaxHalves == 2
\* Calls are counted up to MaxCalls.
MaxCalls == 3

\* ---------------------------------------------------------------- values
Chars == {"a", "{", "}", "\"", "!"}

PyInt(i) == [t |-> "int", v |-> i]

PyStr(s) == [t |-> "str", v |-> s]

RECURSIVE Reduce(_, _)
\* A dyadic rational num/den in lowest terms; zero is 0/1.
Reduce(num, den) ==
    IF den > 1 /\ num % 2 = 0 THEN Reduce(num \div 2, den \div 2)
    ELSE <<num, den>>

\* A float: sign bit, magnitude num/den in lowest terms.
PyFloat(neg, num, den) ==
    LET r == Reduce(num, den)
    IN  [t |-> "float", v |-> [neg |-> neg, num |-> r[1], den |-> r[2]]]

RECURSIVE StringsOfLen(_)
StringsOfLen(k) ==
    IF k = 0 THEN {<< >>}
    ELSE {Append(s, c) : s \in StringsOfLen(k - 1), c \in Chars}

Ints == {PyInt(i) : i \in -MaxInt..MaxInt}

Floats == {PyFloat(neg, k, 2) : neg \in BOOLEAN, k \in 0..MaxHalves}

Strs == UNION {{PyStr(s) : s \in StringsOfLen(k)} : k \in 0..MaxLen}

Numbers == Ints \cup Floats

Values == Numbers \cup Strs

\* ------------------------------------------------- outcomes of a call
\* What a call does: it returns a value or raises an exception, having
\* written the lines `printed` to standard output.
Return(val) == [kind |-> "return", val |-> val, printed |-> << >>]

Raise(exc) == [kind |-> "raise", val |-> [t |-> "exc", v |-> exc], printed |-> << >>]

IsNumber(x) == x.t \in {"int", "float"}

\* int -> float conversion done by float.__radd__ / float.__rmul__.
ToFloat(x) ==
    IF x.t = "int"
    THEN PyFloat(x.v < 0, IF x.v < 0 THEN -x.v ELSE x.v, 1)
    ELSE x

\* Signed numerator of a float's magnitude.
SignedNum(f) == IF f.v.neg THEN -f.v.num ELSE f.v.num

\* IEEE addition, exact on dyadic operands; an exact zero sum is -0.0 only
\* when both operands are negative (that is, both are -0.0).
FloatAdd(f, g) ==
    LET n == SignedNum(f) * g.v.den + SignedNum(g) * f.v.den
        d == f.v.den * g.v.den
    IN  IF n = 0 THEN PyFloat(f.v.neg /\ g.v.neg, 0, 1)
        ELSE PyFloat(n < 0, IF n < 0 THEN -n ELSE n, d)

\* IEEE multiplication, exact on dyadic operands; the sign is the xor of the
\* operands' signs, for a zero product too.
FloatMul(f, g) ==
    PyFloat(f.v.neg # g.v.neg, f.v.num * g.v.num, f.v.den * g.v.den)

RECURSIVE Repeat(_, _)
\* Sequence repetition s * k; a count <= 0 gives the empty sequence.
Repeat(s, k) == IF k <= 0 THEN << >> ELSE s \o Repeat(s, k - 1)

\* Python's binary + on int, float and str operands.
PyAdd(x, y) ==
    CASE x.t = "int" /\ y.t = "int" -> Return(PyInt(x.v + y.v))
      [] x.t = "str" /\ y.t = "str" -> Return(PyStr(x.v \o y.v))
      [] IsNumber(x) /\ IsNumber(y) /\ "float" \in {x.t, y.t} ->
            Return(FloatAdd(ToFloat(x), ToFloat(y)))
      [] OTHER -> Raise("TypeError")

\* Python's binary * on int, float and str operands.
PyMul(x, y) ==
    CASE x.t = "int" /\ y.t = "int" -> Return(PyInt(x.v * y.v))
      [] x.t = "str" /\ y.t = "int" -> Return(PyStr(Repeat(x.v, y.v)))
      [] x.t = "int" /\ y.t = "str" -> Return(PyStr(Repeat(y.v, x.v)))
      [] IsNumber(x) /\ IsNumber(y) /\ "float" \in {x.t, y.t} ->
            Return(FloatMul(ToFloat(x), ToFloat(y)))
      [] OTHER -> Raise("TypeError")

Digit(d) == <<"0", "1", "2", "3", "4", "5", "6", "7", "8", "9">>[d + 1]

RECURSIVE NatToStr(_)
NatToStr(k) ==
    IF k < 10 THEN <<Digit(k)>>
    ELSE Append(NatToStr(k \div 10), Digit(k % 10))

IntToStr(i) == IF i < 0 THEN <<"-">> \o NatToStr(-i) ELSE NatToStr(i)

RECURSIVE FracDigits(_, _)
\* Decimal digits of r/den, 0 <= r < den, den a power of two.
FracDigits(r, den) ==
    IF r = 0 THEN << >>
    ELSE <<Digit((10 * r) \div den)>> \o FracDigits((10 * r) % den, den)

\* repr of a float of moderate size: sign, integer part, ".", fraction.
FloatToStr(f) ==
    LET frac == FracDigits(f.num % f.den, f.den)
    IN  (IF f.neg THEN <<"-">> ELSE << >>)
        \o NatToStr(f.num \div f.den) \o <<".">>
        \o (IF frac = << >> THEN <<"0">> ELSE frac)

\* Mutant of the conversion: repr, which quotes a str.
PyFormat_repr(x) ==
    CASE x.t = "str" -> <<"'">> \o x.v \o <<"'">>
      [] x.t = "int" -> IntToStr(x.v)
      [] x.t = "float" -> FloatToStr(x.v)

\* format(x, ""), which is what a replacement field {x} of an f-string does.
PyFormat(x) ==
    CASE x.t = "str" -> x.v
      [] x.t = "int" -> IntToStr(x.v)
      [] x.t = "float" -> FloatToStr(x.v)

\* Python's == between two results.
PyEq(x, y) ==
    CASE x.t = "str" /\ y.t = "str" -> x.v = y.v
      [] x.t = "int" /\ y.t = "int" -> x.v = y.v
      [] IsNumber(x) /\ IsNumber(y) ->
            SignedNum(ToFloat(x)) * ToFloat(y).v.den
                = SignedNum(ToFloat(y)) * ToFloat(x).v.den
      [] OTHER -> FALSE

\* ------------------------------------------------------------- state
VARIABLES
    run,        \* how the interpreter was started: "script", "pytest", "client"
    opX, opY,   \* the operands a client holds
    pc,         \* position of the interpreter
    stdout,     \* lines written to standard output by main.py's code
    exitcode,   \* process exit status, -1 while running
    first,      \* the first call made to a function of main.py
    last,       \* the latest call made to a function of main.py
    ncalls,     \* number of calls made so far, counted up to MaxCalls
    nextCase,   \* index of the next assert statement of test_main.py
    tests       \* outcome of each test function

vars == <<run, opX, opY, pc, stdout, exitcode, first, last, ncalls, nextCase, tests>>

\* ------------------------------------------------------ main.py
Hello == <<"H", "e", "l", "l", "o", ",", " ">>

\* Mutants of add: a - b on integers; a + b + 1 on integers; a result that
\* depends on the call made before; string coercion of a mixed pair.
add_minus(a, b) ==
    IF a.t = "int" /\ b.t = "int" THEN Return(PyInt(a.v - b.v)) ELSE PyAdd(a, b)

add_inc(a, b) ==
    IF a.t = "int" /\ b.t = "int" THEN Return(PyInt(a.v + b.v + 1)) ELSE PyAdd(a, b)

add_stateful(a, b) ==
    IF last.fn = "multiply" /\ a.t = "int" /\ b.t = "int"
    THEN Return(PyInt(a.v + b.v + 1))
    ELSE PyAdd(a, b)

add_coerce(a, b) ==
    IF {a.t, b.t} \in {{"str", "int"}, {"str", "float"}}
    THEN Return(PyStr(PyFormat(a) \o PyFormat(b)))
    ELSE PyAdd(a, b)

add(a, b) == PyAdd(a, b)

\* Mutants of multiply: a + b; a * a.
multiply_plus(a, b) == PyAdd(a, b)

multiply_square(a, b) == PyMul(a, a)

multiply(a, b) == PyMul(a, b)

\* Mutants of greet: the f prefix forgotten; the greeting printed as well.
greet_plain(name) ==
    Return(PyStr(Hello \o <<"{", "n", "a", "m", "e", "}">> \o <<"!">>))

greet_prints(name) ==
    [Return(PyStr(Hello \o PyFormat(name) \o <<"!">>))
        EXCEPT !.printed = <<Hello \o PyFormat(name) \o <<"!">> >>]

greet(name) == Return(PyStr(Hello \o PyFormat(name) \o <<"!">>))

Apply(fn, args) ==
    CASE fn = "add" -> add(args[1], args[2])
      [] fn = "multiply" -> multiply(args[1], args[2])
      [] fn = "greet" -> greet(args[1])

\* The module's __name__.
ModuleName == IF run = "script" THEN "__main__" ELSE "main"

\* Mutant of the guard: the entry point's statements not guarded.
MainGuard_missing == TRUE

\* if __name__ == "__main__":
MainGuard == ModuleName = "__main__"

NoCall == [fn |-> "none", args |-> << >>, out |-> Return(PyInt(0))]

Call(fn, args) == [fn |-> fn, args |-> args, out |-> Apply(fn, args)]

\* History of calls: the first one, the latest one and how many.
Record(c) ==
    /\ first' = IF first = NoCall THEN c ELSE first
    /\ last' = c
    /\ ncalls' = IF ncalls < MaxCalls THEN ncalls + 1 ELSE ncalls

TestNames == {"test_add", "test_multiply", "test_greet"}

Init ==
    /\ run \in {"script", "pytest", "client"}
    /\ opX \in Values
    /\ opY \in Numbers
    /\ pc = "load"
    /\ stdout = << >>
    /\ exitcode = -1
    /\ first = NoCall
    /\ last = NoCall
    /\ ncalls = 0
    /\ nextCase = 1
    /\ tests = [n \in TestNames |-> "pending"]

\* Where control goes when the module body has been executed.
AfterBody == IF run = "script" THEN "end" ELSE "imported"

\* Execution of the module body: three defs, then the guard of line 13.
Load ==
    /\ pc = "load"
    /\ pc' = IF MainGuard THEN "l14" ELSE AfterBody
    /\ UNCHANGED <<run, opX, opY, stdout, exitcode, first, last, ncalls, nextCase, tests>>

\* print(<text>), the text holding the result of call c: an exception of the
\* call is not caught, nothing is printed and the process ends with status 1.
PrintStmt(c, text, to) ==
    /\ Record(c)
    /\ IF c.out.kind = "raise"
       THEN /\ pc' = "crashed"
            /\ exitcode' = 1
            /\ stdout' = stdout \o c.out.printed
       ELSE /\ pc' = to
            /\ stdout' = Append(stdout \o c.out.printed, text)
            /\ exitcode' = exitcode
    /\ UNCHANGED <<run, opX, opY, nextCase, tests>>

World == <<"W", "o", "r", "l", "d">>

\* print(greet("World"))
Line14 ==
    /\ pc = "l14"
    /\ LET c == Call("greet", <<PyStr(World)>>)
       IN  PrintStmt(c, PyFormat(c.out.val), "l15")

\* print(f"2 + 3 = {add(2, 3)}")
Line15 ==
    /\ pc = "l15"
    /\ LET c == Call("add", <<PyInt(2), PyInt(3)>>)
       IN  PrintStmt(c, <<"2", " ", "+", " ", "3", " ", "=", " ">>
                            \o PyFormat(c.out.val), "l16")

\* print(f"4 * 5 = {multiply(4, 5)}")
Line16 ==
    /\ pc = "l16"
    /\ LET c == Call("multiply", <<PyInt(4), PyInt(5)>>)
       IN  PrintStmt(c, <<"4", " ", "*", " ", "5", " ", "=", " ">>
                            \o PyFormat(c.out.val), AfterBody)

\* The script reaches the end of the file: the interpreter exits with 0.
ScriptExit ==
    /\ pc = "end"
    /\ pc' = "exit"
    /\ exitcode' = 0
    /\ UNCHANGED <<run, opX, opY, stdout, first, last, ncalls, nextCase, tests>>

\* ------------------------------------------------------ test_main.py
Alice == <<"A", "l", "i", "c", "e">>

Bob == <<"B", "o", "b">>

\* The assert statements of test_main.py, in file order.
TestCases == <<
    [test |-> "test_add", fn |-> "add", args |-> <<PyInt(2), PyInt(3)>>, expect |-> PyInt(5)],
    [test |-> "test_add", fn |-> "add", args |-> <<PyInt(-1), PyInt(1)>>, expect |-> PyInt(0)],
    [test |-> "test_add", fn |-> "add", args |-> <<PyInt(0), PyInt(0)>>, expect |-> PyInt(0)],
    [test |-> "test_multiply", fn |-> "multiply", args |-> <<PyInt(2), PyInt(3)>>, expect |-> PyInt(6)],
    [test |-> "test_multiply", fn |-> "multiply", args |-> <<PyInt(-2), PyInt(3)>>, expect |-> PyInt(-6)],
    [test |-> "test_multiply", fn |-> "multiply", args |-> <<PyInt(0), PyInt(5)>>, expect |-> PyInt(0)],
    [test |-> "test_greet", fn |-> "greet", args |-> <<PyStr(Alice)>>,
     expect |-> PyStr(Hello \o Alice \o <<"!">>)],
    [test |-> "test_greet", fn |-> "greet", args |-> <<PyStr(Bob)>>,
     expect |-> PyStr(Hello \o Bob \o <<"!">>)] >>

NumCases == Len(TestCases)

\* Index of the first assert statement after case i that belongs to another
\* test function (NumCases + 1 when there is none).
RECURSIVE NextTest(_, _)
NextTest(i, name) ==
    IF i > NumCases \/ TestCases[i].test # name THEN i
    ELSE NextTest(i + 1, name)

\* One assert statement: the call, the comparison, and on a failure (a wrong
\* result or an exception) the end of that test function.
TestStep ==
    /\ run = "pytest"
    /\ pc = "imported"
    /\ nextCase <= NumCases
    /\ LET tc == TestCases[nextCase]
           c == Call(tc.fn, tc.args)
           ok == c.out.kind = "return" /\ PyEq(c.out.val, tc.expect)
           after == NextTest(nextCase, tc.test)
       IN  /\ Record(c)
           /\ IF ok
              THEN /\ nextCase' = nextCase + 1
                   /\ tests' = IF nextCase + 1 = after
                               THEN [tests EXCEPT ![tc.test] = "passed"]
                               ELSE tests
              ELSE /\ nextCase' = after
                   /\ tests' = [tests EXCEPT ![tc.test] = "failed"]
           /\ stdout' = stdout \o c.out.printed
    /\ UNCHANGED <<run, opX, opY, pc, exitcode>>

\* The test session ends: status 0 when every test passed, 1 otherwise.
TestExit ==
    /\ run = "pytest"
    /\ pc = "imported"
    /\ nextCase = NumCases + 1
    /\ pc' = "exit"
    /\ exitcode' = IF \A n \in TestNames : tests[n] = "passed" THEN 0 ELSE 1
    /\ UNCHANGED <<run, opX, opY, stdout, first, last, ncalls, nextCase, tests>>

\* ------------------------------------------------ an importing client
\* A call made by a program that imported main: the result comes back to
\* the caller, an exception is not caught and ends the process with status 1.
ClientCall(fn, args) ==
    /\ run = "client"
    /\ pc = "imported"
    /\ LET c == Call(fn, args)
       IN  /\ Record(c)
           /\ pc' = IF c.out.kind = "raise" THEN "crashed" ELSE pc
           /\ exitcode' = IF c.out.kind = "raise" THEN 1 ELSE exitcode
           /\ stdout' = stdout \o c.out.printed
    /\ UNCHANGED <<run, opX, opY, nextCase, tests>>

CallAdd == \E x, y \in {opX, opY} : ClientCall("add", <<x, y>>)

CallMultiply == \E x, y \in {opX, opY} : ClientCall("multiply", <<x, y>>)

CallGreet == \E x \in {opX, opY} : ClientCall("greet", <<x>>)

ClientExit ==
    /\ run = "client"
    /\ pc = "imported"
    /\ pc' = "exit"
    /\ exitcode' = 0
    /\ UNCHANGED <<run, opX, opY, stdout, first, last, ncalls, nextCase, tests>>

\* ------------------------------------------------------ specification
Next ==
    \/ Load
    \/ Line14
    \/ Line15
    \/ Line16
    \/ ScriptExit
    \/ TestStep
    \/ TestExit
    \/ CallAdd
    \/ CallMultiply
    \/ CallGreet
    \/ ClientExit

Spec == Init /\ [][Next]_vars

\* ------------------------------------------------------ properties
\* The calls the history holds.
Observed == {first, last} \ {NoCall}

IsIntCall(c, fn) == c.fn = fn /\ c.args[1].t = "int" /\ c.args[2].t = "int"

\* One operand is a str and the other an int or a float.
IsMixed(c) ==
    /\ c.fn \in {"add", "multiply"}
    /\ \/ c.args[1].t = "str" /\ IsNumber(c.args[2])
       \/ c.args[2].t = "str" /\ IsNumber(c.args[1])

\* C1: every call add(a, b) on integers returns the integer a + b, and the
\* three assertions of test_add (add(2, 3) == 5, add(-1, 1) == 0,
\* add(0, 0) == 0) pass.
C1_AddReturnsSum ==
    /\ \A c \in Observed :
          IsIntCall(c, "add") => c.out = Return(PyInt(c.args[1].v + c.args[2].v))
    /\ tests["test_add"] # "failed"
    /\ nextCase > 3 => tests["test_add"] = "passed"

C1_Witness ==
    /\ run = "client"
    /\ IsIntCall(last, "add")
    /\ last.args[1].v < 0 /\ last.args[2].v > 1
    /\ last.out.val.v = 1

\* C2: every call multiply(a, b) on integers returns the integer a * b, and
\* the three assertions of test_multiply (multiply(2, 3) == 6,
\* multiply(-2, 3) == -6, multiply(0, 5) == 0) pass.
C2_MultiplyReturnsProduct ==
    /\ \A c \in Observed :
          IsIntCall(c, "multiply") =>
              c.out = Return(PyInt(c.args[1].v * c.args[2].v))
    /\ tests["test_multiply"] # "failed"
    /\ nextCase > 6 => tests["test_multiply"] = "passed"

C2_Witness ==
    /\ run = "client"
    /\ IsIntCall(last, "multiply")
    /\ last.args[1].v = -2 /\ last.args[2].v = 2
    /\ last.out.val.v = -4

\* C3: every call greet(n) on a string returns "Hello, " followed by the
\* characters of n, unchanged, followed by "!", and the two assertions of
\* test_greet pass.
C3_GreetVerbatim ==
    /\ \A c \in Observed :
          c.fn = "greet" /\ c.args[1].t = "str" =>
              /\ c.out = Return(PyStr(Hello \o c.args[1].v \o <<"!">>))
              /\ Len(c.out.val.v) = Len(c.args[1].v) + 8
    /\ tests["test_greet"] # "failed"
    /\ nextCase > 8 => tests["test_greet"] = "passed"

C3_Witness ==
    /\ run = "client"
    /\ ncalls >= 2
    /\ last.fn = "greet" /\ last.args[1] = PyStr(<<"{">>)
    /\ last.out.val.v = <<"H", "e", "l", "l", "o", ",", " ", "{", "!">>

\* The three lines of the entry point's output.
ExpectedOutput == <<
    <<"H", "e", "l", "l", "o", ",", " ", "W", "o", "r", "l", "d", "!">>,
    <<"2", " ", "+", " ", "3", " ", "=", " ", "5">>,
    <<"4", " ", "*", " ", "5", " ", "=", " ", "2", "0">> >>

\* Number of print statements executed when the script is at position p.
Printed(p) ==
    CASE p \in {"load", "l14"} -> 0
      [] p = "l15" -> 1
      [] p = "l16" -> 2
      [] p \in {"end", "exit"} -> 3

\* C4: run directly, the module calls greet("World"), add(2, 3) and
\* multiply(4, 5) in that order, each call followed by its line of output, so
\* that standard output is at every moment a prefix of the three expected
\* lines and is exactly these three lines at the end; the run never fails,
\* never stops before its end, and exits with status 0.
C4_EntryPoint ==
    run = "script" =>
        /\ pc \in {"load", "l14", "l15", "l16", "end", "exit"}
        /\ stdout = SubSeq(ExpectedOutput, 1, Printed(pc))
        /\ ncalls = Printed(pc)
        /\ pc = "l15" =>
              last = [fn |-> "greet", args |-> <<PyStr(World)>>,
                      out |-> Return(PyStr(ExpectedOutput[1]))]
        /\ pc = "l16" =>
              last = [fn |-> "add", args |-> <<PyInt(2), PyInt(3)>>,
                      out |-> Return(PyInt(5))]
        /\ pc \in {"end", "exit"} =>
              last = [fn |-> "multiply", args |-> <<PyInt(4), PyInt(5)>>,
                      out |-> Return(PyInt(20))]
        /\ pc \in {"l15", "l16", "end", "exit"} => first.fn = "greet"
        /\ IF pc = "exit" THEN exitcode = 0 ELSE exitcode = -1 /\ ENABLED Next

C4_Witness ==
    /\ run = "script"
    /\ pc = "exit"
    /\ exitcode = 0
    /\ stdout = ExpectedOutput

\* C5: two calls of add, or two calls of multiply, on the same two integers
\* in opposite orders return the same result.
C5_Commutative ==
    \A fn \in {"add", "multiply"} :
        /\ IsIntCall(first, fn)
        /\ IsIntCall(last, fn)
        /\ first.args = <<last.args[2], last.args[1]>>
        => first.out = last.out

C5_Witness ==
    /\ IsIntCall(first, "add")
    /\ IsIntCall(last, "add")
    /\ first.args[1].v = -1 /\ first.args[2].v = 2
    /\ last.args[1].v = 2 /\ last.args[2].v = -1
    /\ last.out.val.v = 1

\* C6: a call add(a, 0) or add(0, a) on integers returns a.
C6_AddZeroIdentity ==
    \A c \in Observed :
        IsIntCall(c, "add") =>
            /\ c.args[2].v = 0 => c.out = Return(c.args[1])
            /\ c.args[1].v = 0 => c.out = Return(c.args[2])

C6_Witness ==
    /\ IsIntCall(first, "add") /\ first.args[1].v = 0 /\ first.args[2].v = -2
    /\ first.out.val.v = -2
    /\ IsIntCall(last, "add") /\ last.args[1].v = -2 /\ last.args[2].v = 0
    /\ last.out.val.v = -2

\* C7: the product returned by multiply on integers a and b is 0 exactly
\* when a or b is 0, negative exactly when the operands have opposite signs,
\* positive exactly when they are non-zero with the same sign.
C7_ProductSign ==
    \A c \in Observed :
        IsIntCall(c, "multiply") =>
            LET a == c.args[1].v
                b == c.args[2].v
                p == c.out.val.v
            IN  /\ c.out.kind = "return" /\ c.out.val.t = "int"
                /\ p = 0 <=> (a = 0 \/ b = 0)
                /\ p < 0 <=> ((a < 0 /\ b > 0) \/ (a > 0 /\ b < 0))
                /\ p > 0 <=> ((a > 0 /\ b > 0) \/ (a < 0 /\ b < 0))

C7_Witness ==
    /\ IsIntCall(first, "multiply") /\ first.args[1].v < 0 /\ first.args[2].v < 0
    /\ first.out.val.v > 0
    /\ IsIntCall(last, "multiply") /\ last.args[1].v > 0 /\ last.args[2].v < 0
    /\ last.out.val.v < 0

C9_MixedAlwaysRaises ==
    \A c \in Observed : IsMixed(c) => c.out = Raise("TypeError")

\* C9 amended: add with one str operand and one int or float operand raises
\* TypeError, and so does multiply with one str and one float operand; the
\* exception reaches the caller, which it ends with status 1. multiply with
\* one str and one int operand returns the string repeated that many times
\* (the empty string for a count <= 0).
C9_MixedOperands ==
    /\ \A c \in Observed :
          IsMixed(c) =>
              LET s == IF c.args[1].t = "str" THEN c.args[1] ELSE c.args[2]
                  k == IF c.args[1].t = "str" THEN c.args[2] ELSE c.args[1]
              IN  IF c.fn = "multiply" /\ k.t = "int"
                  THEN /\ c.out = Return(PyStr(Repeat(s.v, k.v)))
                       /\ Len(c.out.val.v) = IF k.v > 0 THEN k.v * Len(s.v) ELSE 0
                  ELSE c.out = Raise("TypeError")
    /\ run = "client" /\ last.out.kind = "raise" => pc = "crashed" /\ exitcode = 1

C9_Witness ==
    /\ first.fn = "multiply" /\ IsMixed(first) /\ first.args[2] = PyInt(2)
    /\ first.out = Return(PyStr(<<"a", "a">>))
    /\ last.fn = "add" /\ IsMixed(last) /\ last.args[2].t = "int"
    /\ last.out = Raise("TypeError")
    /\ pc = "crashed"

\* C10: no line reaches standard output unless the module is run directly:
\* after the import and any calls of add, multiply and greet, by the tests or
\* by a client, standard output is empty.
C10_NoOutputOnImport ==
    run # "script" => stdout = << >>

C10_Witness ==
    /\ run = "client"
    /\ ncalls >= 3
    /\ first.fn = "greet"
    /\ last.fn = "add"
    /\ stdout = << >>

====
